---- MODULE Spec2Model ----
(***************************************************************************)
(* Booking ledger of the pilates studio application (src/app.py).          *)
(*                                                                         *)
(* The three tables (sessions, reservations, members) are the state.  One  *)
(* HTTP request is two steps: the before_request hook                      *)
(* close_past_sessions_and_apply_attendance (the settlement sweep, which   *)
(* commits on its own), then the view function of the route.  Every view   *)
(* is a function from the store (and the form's inputs) to the store the   *)
(* request leaves behind; the actions apply these functions.  Time is the  *)
(* local clock in hours; a session's (date, time) is one number, its       *)
(* start; the clock moves between requests, not within one.  Strings are   *)
(* sequences of one-character strings so that strip,                       *)
(* canonical and lower are computed, not assumed.  The admin's login is    *)
(* not modelled: an admin browser exists at all times.                     *)
(*                                                                         *)
(* Spec runs the requests one at a time.  RaceSpec runs reserve in two     *)
(* server threads whose reads and commits interleave; inflight holds what  *)
(* a thread has read between its checks and its commit.                    *)
(***************************************************************************)
EXTENDS Integers, Sequences, FiniteSets, TLC

VARIABLES sessions, reservations, members, cookie, now, pc, inflight

vars == <<sessions, reservations, members, cookie, now, pc, inflight>>

---------------------------------------------------------------------------
(* Bounds of the model *)

MaxSessions == 2
MaxReservations == 2
MaxCredits == 2

\* timedelta(hours=24) in cancel
CancelWindow == 24

\* clock readings (hours) the model visits, and the starts an admin may enter
Times == {1, 2, 26}
StartTimes == {25, 26}
\* capacities an admin may enter in the form (int(request.form['capacity']))
Capacities == {-1, 1, 2}
\* credits / delta values an admin may enter
CreditInputs == {-1, 0, 2}
DeltaInputs == {-1, 1}
\* raw names typed into the login and member forms
RawNames == { <<"A">>, <<"a">>, <<" ", "a">>, <<" ">> }

ALLOWED_STATUSES == {"active", "canceled", "moved", "attended", "no_show"}

---------------------------------------------------------------------------
(* Strings *)

LowerChar(c) == IF c = "A" THEN "a" ELSE IF c = "B" THEN "b" ELSE c

\* str.lower() / func.lower()
Lower(s) == [i \in 1..Len(s) |-> LowerChar(s[i])]

RECURSIVE LStrip(_)
LStrip(s) == IF s # <<>> /\ Head(s) = " " THEN LStrip(Tail(s)) ELSE s

RECURSIVE RStrip(_)
RStrip(s) ==
  IF s # <<>> /\ s[Len(s)] = " " THEN RStrip(SubSeq(s, 1, Len(s) - 1)) ELSE s

\* str.strip()
Strip(s) == LStrip(RStrip(s))

\* " ".join(s.split()) on an already stripped string: runs of blanks collapse
RECURSIVE Collapse(_)
Collapse(s) ==
  IF Len(s) < 2 THEN s
  ELSE IF s[1] = " " /\ s[2] = " " THEN Collapse(Tail(s))
  ELSE <<s[1]>> \o Collapse(Tail(s))

\* Member.canonical
canonical(name) == Collapse(Strip(name))

---------------------------------------------------------------------------
(* Tables *)

Max(S) == CHOOSE x \in S : \A y \in S : y <= x
Min(S) == CHOOSE x \in S : \A y \in S : x <= y

\* the integer primary key the store gives a new row
NextId(table) == IF DOMAIN table = {} THEN 1 ELSE Max(DOMAIN table) + 1

\* a store that parses the CHECK constraints and does not enforce them
SessionConstraints_Unenforced(s) == TRUE

\* Session.__table_args__: the CHECK constraints of the sessions table
SessionConstraints(s) ==
  /\ s.capacity >= 0
  /\ s.spots_left >= 0
  /\ s.spots_left <= s.capacity

\* Session.is_past
is_past(s, t) == s.start < t

\* Member.query.filter(func.lower(Member.full_name) == name.lower())
MatchingMembers(M, name) == {n \in DOMAIN M : Lower(n) = Lower(name)}

\* ... .first()
FirstMember(M, name) == CHOOSE n \in MatchingMembers(M, name) : TRUE

\* add or overwrite one row of a table
Put(table, id, row) ==
  [k \in DOMAIN table \cup {id} |-> IF k = id THEN row ELSE table[k]]

Remove(table, ids) == [k \in DOMAIN table \ ids |-> table[k]]

\* s.reservations
ReservationsOf(R, sid) == {rid \in DOMAIN R : R[rid].session_id = sid}

\* flask_session without a user_name
NoName == << >>

\* the store as one value
Store == [sessions |-> sessions, reservations |-> reservations, members |-> members]

Init ==
  /\ sessions = << >>
  /\ reservations = << >>
  /\ members = << >>
  /\ cookie = NoName
  /\ now = 1
  /\ pc = "idle"
  /\ inflight = << >>

---------------------------------------------------------------------------
(* Settlement sweep: the before_request hook *)

\* the to_close query: not completed, and (date, time) before now
ToClose(S, t) == {sid \in DOMAIN S : ~S[sid].completed /\ S[sid].start < t}

\* the loop body without its test of the status: every reservation of a
\* closing session is settled
SettleReservation_AnyStatus(d, rid) ==
  LET name == d.reservations[rid].user_name
      R2 == [d.reservations EXCEPT ![rid].status = "attended"]
  IN IF MatchingMembers(d.members, name) # {}
        /\ d.members[FirstMember(d.members, name)].credits > 0
     THEN [d EXCEPT !.reservations = R2,
                    !.members[FirstMember(d.members, name)].credits = @ - 1]
     ELSE [d EXCEPT !.reservations = R2]

\* the body of "for r in s.reservations" for one reservation
SettleReservation(d, rid) ==
  IF d.reservations[rid].status = "active"
  THEN LET name == d.reservations[rid].user_name
           R2 == [d.reservations EXCEPT ![rid].status = "attended"]
       IN IF MatchingMembers(d.members, name) # {}
             /\ d.members[FirstMember(d.members, name)].credits > 0
          THEN [d EXCEPT !.reservations = R2,
                         !.members[FirstMember(d.members, name)].credits = @ - 1]
          ELSE [d EXCEPT !.reservations = R2]
  ELSE d

RECURSIVE SettleAll(_, _)
SettleAll(d, rids) ==
  IF rids = {} THEN d
  ELSE SettleAll(SettleReservation(d, Min(rids)), rids \ {Min(rids)})

\* the body of "for s in to_close" for one session
CloseSession(d, sid) ==
  SettleAll([d EXCEPT !.sessions[sid].completed = TRUE],
            ReservationsOf(d.reservations, sid))

RECURSIVE CloseAll(_, _)
CloseAll(d, sids) ==
  IF sids = {} THEN d
  ELSE CloseAll(CloseSession(d, Min(sids)), sids \ {Min(sids)})

\* a hook that consults neither the completed flag nor the attended status:
\* every past session is settled again on every run
RECURSIVE Resettle(_, _)
Resettle(d, rids) ==
  IF rids = {} THEN d
  ELSE Resettle(
         SettleReservation(
           IF d.reservations[Min(rids)].status = "attended"
           THEN [d EXCEPT !.reservations[Min(rids)].status = "active"] ELSE d,
           Min(rids)),
         rids \ {Min(rids)})

close_past_sessions_and_apply_attendance_Resettles(d, t) ==
  Resettle([d EXCEPT !.sessions =
              [sid \in DOMAIN d.sessions |->
                 IF d.sessions[sid].start < t
                 THEN [d.sessions[sid] EXCEPT !.completed = TRUE]
                 ELSE d.sessions[sid]]],
           {rid \in DOMAIN d.reservations :
              d.sessions[d.reservations[rid].session_id].start < t})

\* the hook as a function of the store and the clock
close_past_sessions_and_apply_attendance(d, t) ==
  CloseAll(d, ToClose(d.sessions, t))

---------------------------------------------------------------------------
(* Views, as functions of the store the hook left *)

\* db.session.commit() of a view: the store takes the view's writes d2 unless
\* a CHECK constraint of the sessions table fails; then the request ends in
\* an IntegrityError and the store stays as it was (d)
Commit(d, d2) ==
  IF \A sid \in DOMAIN d2.sessions : SessionConstraints(d2.sessions[sid])
  THEN d2 ELSE d

\* the outcome of reserve for the logged-in name u: the message it flashes
ReserveFlash(d, u, sid, t) ==
  IF sid \notin DOMAIN d.sessions THEN "404"
  ELSE IF d.sessions[sid].completed \/ is_past(d.sessions[sid], t) THEN "closed"
  ELSE IF d.sessions[sid].spots_left <= 0 THEN "full"
  ELSE IF \/ MatchingMembers(d.members, u) = {}
          \/ d.members[FirstMember(d.members, u)].credits <= 0 THEN "no_credits"
  ELSE IF \E rid \in DOMAIN d.reservations :
             /\ d.reservations[rid].user_name = u
             /\ d.reservations[rid].session_id = sid
             /\ d.reservations[rid].status = "active" THEN "already"
  ELSE "ok"

\* Reservation(user_name=..., session_id=..., status='active'); the validator
\* normalize_name strips the name
NewReservation(u, sid) ==
  [user_name |-> Strip(u), session_id |-> sid, status |-> "active"]

\* a commit that counts the seat down in the database row ("SET spots_left =
\* spots_left - 1") instead of writing the value the thread computed
reserve_commit_Relative(d, q) ==
  Commit(d, [d EXCEPT
    !.reservations = Put(@, NextId(@), NewReservation(q.user_name, q.session_id)),
    !.sessions[q.session_id].spots_left = @ - 1])

\* the writes of reserve by a thread that has read q: the new reservation, and
\* "s.spots_left -= 1" computed on the object the thread loaded, which the ORM
\* flushes as the value q.spots_left - 1
reserve_commit(d, q) ==
  Commit(d, [d EXCEPT
    !.reservations = Put(@, NextId(@), NewReservation(q.user_name, q.session_id)),
    !.sessions[q.session_id].spots_left = q.spots_left - 1])

\* a reserve that takes the credit when the seat is booked
reserve_DebitsCredit(d, u, sid, t) ==
  IF ReserveFlash(d, u, sid, t) # "ok" THEN d
  ELSE Commit(d, [d EXCEPT
         !.reservations = Put(@, NextId(@), NewReservation(u, sid)),
         !.sessions[sid].spots_left = @ - 1,
         !.members[FirstMember(d.members, u)].credits = @ - 1])

\* a reserve that books the seat before it looks at the member's credits
reserve_WritesBeforeCreditCheck(d, u, sid, t) ==
  IF ReserveFlash(d, u, sid, t) \notin {"ok", "no_credits"} THEN d
  ELSE IF ReserveFlash(d, u, sid, t) = "no_credits"
  THEN [d EXCEPT !.sessions[sid].spots_left = @ - 1]
  ELSE Commit(d, [d EXCEPT
         !.reservations = Put(@, NextId(@), NewReservation(u, sid)),
         !.sessions[sid].spots_left = @ - 1])

reserve(d, u, sid, t) ==
  IF ReserveFlash(d, u, sid, t) # "ok" THEN d
  ELSE Commit(d, [d EXCEPT
         !.reservations = Put(@, NextId(@), NewReservation(u, sid)),
         !.sessions[sid].spots_left = @ - 1])

\* the cutoff test written "<=": a cancel exactly 24 hours ahead is refused
CancelFlash_CutoffInclusive(d, u, rid, t) ==
  IF rid \notin DOMAIN d.reservations THEN "404"
  ELSE IF d.reservations[rid].user_name # u THEN "unauthorized"
  ELSE IF d.reservations[rid].status # "active" THEN "not_active"
  ELSE IF d.sessions[d.reservations[rid].session_id].start - t <= CancelWindow
       THEN "too_late"
  ELSE "ok"

\* the outcome of cancel for the logged-in name u
CancelFlash(d, u, rid, t) ==
  IF rid \notin DOMAIN d.reservations THEN "404"
  ELSE IF d.reservations[rid].user_name # u THEN "unauthorized"
  ELSE IF d.reservations[rid].status # "active" THEN "not_active"
  ELSE IF d.sessions[d.reservations[rid].session_id].start - t < CancelWindow
       THEN "too_late"
  ELSE IF is_past(d.sessions[d.reservations[rid].session_id], t) THEN "past"
  ELSE "ok"

\* a cancel that retires the reservation and forgets the seat
cancel_KeepsSpot(d, u, rid, t) ==
  IF CancelFlash(d, u, rid, t) # "ok" THEN d
  ELSE Commit(d, [d EXCEPT !.reservations[rid].status = "canceled"])

cancel(d, u, rid, t) ==
  IF CancelFlash(d, u, rid, t) # "ok" THEN d
  ELSE Commit(d, [d EXCEPT
         !.reservations[rid].status = "canceled",
         !.sessions[d.reservations[rid].session_id].spots_left = @ + 1])

\* the outcome of a move that does not test the status of the reservation
MoveFlash_AnyStatus(d, u, rid, target, t) ==
  IF rid \notin DOMAIN d.reservations THEN "404"
  ELSE IF d.reservations[rid].user_name # u THEN "refused"
  ELSE IF target \notin DOMAIN d.sessions THEN "404"
  ELSE IF is_past(d.sessions[target], t) THEN "target_past"
  ELSE IF d.sessions[target].spots_left <= 0 THEN "target_full"
  ELSE "ok"

\* the outcome of a move that does not test the start of the target
MoveFlash_AnyTarget(d, u, rid, target, t) ==
  IF rid \notin DOMAIN d.reservations THEN "404"
  ELSE IF d.reservations[rid].user_name # u \/ d.reservations[rid].status # "active"
       THEN "refused"
  ELSE IF target \notin DOMAIN d.sessions THEN "404"
  ELSE IF d.sessions[target].spots_left <= 0 THEN "target_full"
  ELSE "ok"

\* the outcome of move (POST) for the logged-in name u
MoveFlash(d, u, rid, target, t) ==
  IF rid \notin DOMAIN d.reservations THEN "404"
  ELSE IF d.reservations[rid].user_name # u \/ d.reservations[rid].status # "active"
       THEN "refused"
  ELSE IF target \notin DOMAIN d.sessions THEN "404"
  ELSE IF is_past(d.sessions[target], t) THEN "target_past"
  ELSE IF d.sessions[target].spots_left <= 0 THEN "target_full"
  ELSE "ok"

\* a move that retires the source reservation before it checks the target
move_WritesBeforeTargetCheck(d, u, rid, target, t) ==
  IF MoveFlash(d, u, rid, target, t) \in {"404", "refused"} THEN d
  ELSE IF MoveFlash(d, u, rid, target, t) # "ok"
  THEN [d EXCEPT !.reservations[rid].status = "moved",
                 !.sessions[d.reservations[rid].session_id].spots_left = @ + 1]
  ELSE LET d1 == [d EXCEPT !.reservations[rid].status = "moved"]
           d2 == [d1 EXCEPT !.sessions[d.reservations[rid].session_id].spots_left = @ + 1]
           d3 == [d2 EXCEPT !.reservations =
                    Put(@, NextId(@), NewReservation(d.reservations[rid].user_name, target))]
           d4 == [d3 EXCEPT !.sessions[target].spots_left = @ - 1]
       IN Commit(d, d4)

\* the writes of move, in the order of the code: the source and the target may
\* be the same row
move(d, u, rid, target, t) ==
  IF MoveFlash(d, u, rid, target, t) # "ok" THEN d
  ELSE LET d1 == [d EXCEPT !.reservations[rid].status = "moved"]
           d2 == [d1 EXCEPT !.sessions[d.reservations[rid].session_id].spots_left = @ + 1]
           d3 == [d2 EXCEPT !.reservations =
                    Put(@, NextId(@), NewReservation(d.reservations[rid].user_name, target))]
           d4 == [d3 EXCEPT !.sessions[target].spots_left = @ - 1]
       IN Commit(d, d4)

---------------------------------------------------------------------------
(* Admin views *)

\* the refund without its status test: a credit for whatever is canceled
RefundCredit_AnyStatus(M, r) ==
  IF MatchingMembers(M, r.user_name) # {}
  THEN [M EXCEPT ![FirstMember(M, r.user_name)].credits = @ + 1]
  ELSE M

\* "if r.status == 'attended' and m: m.credits += 1"
RefundCredit(M, r) ==
  IF r.status = "attended" /\ MatchingMembers(M, r.user_name) # {}
  THEN [M EXCEPT ![FirstMember(M, r.user_name)].credits = @ + 1]
  ELSE M

\* the spot given back for whatever is canceled in a session not completed
RefundSpot_AnyStatus(S, r) ==
  IF ~S[r.session_id].completed
  THEN [S EXCEPT ![r.session_id].spots_left = @ + 1]
  ELSE S

\* "if r.status == 'active' and not r.session.completed: spots_left += 1"
RefundSpot(S, r) ==
  IF r.status = "active" /\ ~S[r.session_id].completed
  THEN [S EXCEPT ![r.session_id].spots_left = @ + 1]
  ELSE S

\* the view without its write of the status: the refunds are made and the
\* reservation stays as it was
admin_cancel_reservation_refund_KeepsStatus(d, rid) ==
  IF rid \notin DOMAIN d.reservations THEN d
  ELSE IF d.reservations[rid].status = "canceled" THEN d
  ELSE Commit(d, [sessions |-> RefundSpot(d.sessions, d.reservations[rid]),
                  reservations |-> d.reservations,
                  members |-> RefundCredit(d.members, d.reservations[rid])])

admin_cancel_reservation_refund(d, rid) ==
  IF rid \notin DOMAIN d.reservations THEN d
  ELSE IF d.reservations[rid].status = "canceled" THEN d
  ELSE Commit(d, [sessions |-> RefundSpot(d.sessions, d.reservations[rid]),
                  reservations |-> [d.reservations EXCEPT ![rid].status = "canceled"],
                  members |-> RefundCredit(d.members, d.reservations[rid])])

\* Session(date=d, time=t, capacity=cap, spots_left=cap), completed by default
\* False
NewSession(start, cap) ==
  [start |-> start, capacity |-> cap, spots_left |-> cap, completed |-> FALSE]

\* admin_sessions (POST): a failed insert is caught and rolled back
admin_sessions(d, start, cap) ==
  Commit(d, [d EXCEPT !.sessions = Put(@, NextId(@), NewSession(start, cap))])

\* the loop of admin_delete_session over the reservations rids of the session
RECURSIVE DeleteRefunds(_, _, _)
DeleteRefunds(M, R, rids) ==
  IF rids = {} THEN M
  ELSE DeleteRefunds(
         IF MatchingMembers(M, R[Min(rids)].user_name) # {}
            /\ R[Min(rids)].status = "attended"
         THEN [M EXCEPT ![FirstMember(M, R[Min(rids)].user_name)].credits = @ + 1]
         ELSE M,
         R, rids \ {Min(rids)})

\* the deletion without its test of the start time
admin_delete_session_AnyTime(d, sid, t) ==
  IF sid \notin DOMAIN d.sessions THEN d
  ELSE [sessions |-> Remove(d.sessions, {sid}),
        reservations |-> Remove(d.reservations, ReservationsOf(d.reservations, sid)),
        members |-> DeleteRefunds(d.members, d.reservations,
                                  ReservationsOf(d.reservations, sid))]

\* the reservations are marked canceled and committed; then the session is
\* deleted and its reservations with it (cascade)
admin_delete_session(d, sid, t) ==
  IF sid \notin DOMAIN d.sessions THEN d
  ELSE IF is_past(d.sessions[sid], t) THEN d
  ELSE [sessions |-> Remove(d.sessions, {sid}),
        reservations |-> Remove(d.reservations, ReservationsOf(d.reservations, sid)),
        members |-> DeleteRefunds(d.members, d.reservations,
                                  ReservationsOf(d.reservations, sid))]

\* a registration that looks for the exact name only
admin_members_ExactMatch(d, raw, credits) ==
  IF Strip(raw) = << >> THEN d
  ELSE IF canonical(Strip(raw)) \in DOMAIN d.members THEN d
  ELSE [d EXCEPT !.members =
          Put(@, canonical(Strip(raw)), [credits |-> IF credits > 0 THEN credits ELSE 0])]

\* admin_members (POST)
admin_members(d, raw, credits) ==
  IF Strip(raw) = << >> THEN d
  ELSE IF MatchingMembers(d.members, canonical(Strip(raw))) # {} THEN d
  ELSE [d EXCEPT !.members =
          Put(@, canonical(Strip(raw)), [credits |-> IF credits > 0 THEN credits ELSE 0])]

\* admin_members_delete: the member row goes, the reservations stay.  A member
\* row is named here by its full_name, which is unique
admin_members_delete(d, name) ==
  IF name \notin DOMAIN d.members THEN d
  ELSE [d EXCEPT !.members = Remove(@, {name})]

\* the adjustment without its floor: m.credits + delta
admin_members_adjust_credits_NoFloor(d, name, delta) ==
  IF name \notin DOMAIN d.members THEN d
  ELSE [d EXCEPT !.members[name].credits = @ + delta]

\* admin_members_adjust_credits: max(0, m.credits + delta)
admin_members_adjust_credits(d, name, delta) ==
  IF name \notin DOMAIN d.members THEN d
  ELSE [d EXCEPT !.members[name].credits = IF @ + delta > 0 THEN @ + delta ELSE 0]

\* login (POST): the name the session cookie holds afterwards
login(d, raw, old) ==
  IF Strip(raw) = << >> THEN old
  ELSE IF MatchingMembers(d.members, canonical(Strip(raw))) = {} THEN old
  ELSE FirstMember(d.members, canonical(Strip(raw)))

---------------------------------------------------------------------------
(* Requests *)

\* the names a member can be stored under
MemberNames == {canonical(Strip(raw)) : raw \in RawNames} \ {<< >>}

SetStore(d) ==
  /\ sessions' = d.sessions
  /\ reservations' = d.reservations
  /\ members' = d.members

\* every request starts with the hook
BeforeRequest ==
  /\ pc = "idle"
  /\ SetStore(close_past_sessions_and_apply_attendance(Store, now))
  /\ pc' = "view"
  /\ UNCHANGED <<cookie, now, inflight>>

\* the wall clock moves on between requests
Tick ==
  /\ pc = "idle"
  /\ \E t \in Times : t > now /\ (\A u \in Times : u > now => t <= u) /\ now' = t
  /\ UNCHANGED <<sessions, reservations, members, cookie, pc, inflight>>

\* a view runs after the hook and ends the request
View(d) ==
  /\ pc = "view"
  /\ SetStore(d)
  /\ pc' = "idle"
  /\ UNCHANGED <<now, inflight>>

\* the GET views (home, user_dashboard, list_sessions, move's form, the admin
\* pages): no write
Render == View(Store) /\ UNCHANGED cookie

Login(raw) == View(Store) /\ cookie' = login(Store, raw, cookie)

Logout == View(Store) /\ cookie' = NoName

\* login_required: the user views run only with a user_name in the cookie
Reserve(sid) ==
  /\ cookie # NoName
  /\ ReserveFlash(Store, cookie, sid, now) = "ok" => NextId(reservations) <= MaxReservations
  /\ View(reserve(Store, cookie, sid, now))
  /\ UNCHANGED cookie

Cancel(rid) ==
  /\ cookie # NoName
  /\ View(cancel(Store, cookie, rid, now))
  /\ UNCHANGED cookie

Move(rid, target) ==
  /\ cookie # NoName
  /\ MoveFlash(Store, cookie, rid, target, now) = "ok" => NextId(reservations) <= MaxReservations
  /\ View(move(Store, cookie, rid, target, now))
  /\ UNCHANGED cookie

AdminCancelRefund(rid) ==
  View(admin_cancel_reservation_refund(Store, rid)) /\ UNCHANGED cookie

CreateSession(start, cap) ==
  /\ NextId(sessions) <= MaxSessions
  /\ View(admin_sessions(Store, start, cap))
  /\ UNCHANGED cookie

DeleteSession(sid) == View(admin_delete_session(Store, sid, now)) /\ UNCHANGED cookie

Register(raw, credits) == View(admin_members(Store, raw, credits)) /\ UNCHANGED cookie

DeleteMember(name) == View(admin_members_delete(Store, name)) /\ UNCHANGED cookie

AdjustCredits(name, delta) ==
  /\ name \in DOMAIN members => members[name].credits + delta <= MaxCredits
  /\ View(admin_members_adjust_credits(Store, name, delta))
  /\ UNCHANGED cookie

Next ==
  \/ BeforeRequest
  \/ Tick
  \/ Render
  \/ \E raw \in RawNames : Login(raw)
  \/ Logout
  \/ \E sid \in 1..MaxSessions : Reserve(sid)
  \/ \E rid \in 1..MaxReservations : Cancel(rid)
  \/ \E rid \in 1..MaxReservations, target \in 1..MaxSessions : Move(rid, target)
  \/ \E rid \in 1..MaxReservations : AdminCancelRefund(rid)
  \/ \E start \in StartTimes, cap \in Capacities : CreateSession(start, cap)
  \/ \E sid \in 1..MaxSessions : DeleteSession(sid)
  \/ \E raw \in RawNames, credits \in CreditInputs : Register(raw, credits)
  \/ \E name \in MemberNames : DeleteMember(name)
  \/ \E name \in MemberNames, delta \in DeltaInputs : AdjustCredits(name, delta)

Spec == Init /\ [][Next]_vars

TypeOK ==
  /\ pc \in {"idle", "view"}
  /\ inflight = << >>
  /\ now \in Times
  /\ cookie \in MemberNames \cup {NoName}
  /\ DOMAIN sessions \subseteq 1..MaxSessions
  /\ DOMAIN reservations \subseteq 1..MaxReservations
  /\ DOMAIN members \subseteq MemberNames
  /\ \A rid \in DOMAIN reservations :
       /\ reservations[rid].status \in ALLOWED_STATUSES
       /\ reservations[rid].user_name \in MemberNames
       /\ reservations[rid].session_id \in DOMAIN sessions

---------------------------------------------------------------------------
(* Claims *)

\* the reservations of the table R held under the name u for session sid with
\* status active
ActiveFor(R, u, sid) ==
  {rid \in DOMAIN R : /\ R[rid].user_name = u
                      /\ R[rid].session_id = sid
                      /\ R[rid].status = "active"}

\* C1: in every reachable state every session has 0 <= spots_left <= capacity.
C1_SpotsWithinCapacity ==
  \A sid \in DOMAIN sessions :
    /\ 0 <= sessions[sid].spots_left
    /\ sessions[sid].spots_left <= sessions[sid].capacity

\* C1 witness: one session is full with an active reservation in it, another is
\* back at its capacity after a reservation of it was canceled.
C1_Witness ==
  /\ \E rid \in DOMAIN reservations :
       /\ reservations[rid].status = "active"
       /\ sessions[reservations[rid].session_id].spots_left = 0
  /\ \E rid \in DOMAIN reservations :
       /\ reservations[rid].status = "canceled"
       /\ sessions[reservations[rid].session_id].capacity > 0
       /\ sessions[reservations[rid].session_id].spots_left
            = sessions[reservations[rid].session_id].capacity

\* C2: in every reachable state every member's credit balance is >= 0.
C2_CreditsNonNegative ==
  \A n \in DOMAIN members : members[n].credits >= 0

\* C2 witness: a member stands at 0 credits with an attended reservation under
\* the member's name (the sweep settled it) while the admin may still subtract.
C2_Witness ==
  /\ pc = "view"
  /\ \E n \in DOMAIN members :
       /\ members[n].credits = 0
       /\ \E rid \in DOMAIN reservations :
            /\ reservations[rid].status = "attended"
            /\ Lower(reservations[rid].user_name) = Lower(n)

\* the precondition of Reserve as the claim C3 words it, for the logged-in name u
ReservePre(u, sid) ==
  /\ sid \in DOMAIN sessions
  /\ ~sessions[sid].completed
  /\ ~(sessions[sid].start < now)
  /\ sessions[sid].spots_left > 0
  /\ \E n \in DOMAIN members : Lower(n) = Lower(u) /\ members[n].credits > 0
  /\ ActiveFor(reservations, u, sid) = {}

\* what a successful Reserve leaves, as C3 words it
ReserveEffect(u, sid, d2) ==
  /\ \E rid \in DOMAIN d2.reservations \ DOMAIN reservations :
       /\ DOMAIN d2.reservations = DOMAIN reservations \cup {rid}
       /\ d2.reservations[rid] = [user_name |-> u, session_id |-> sid, status |-> "active"]
       /\ \A r \in DOMAIN reservations : d2.reservations[r] = reservations[r]
  /\ DOMAIN d2.sessions = DOMAIN sessions
  /\ d2.sessions[sid].spots_left = sessions[sid].spots_left - 1
  /\ d2.sessions[sid].capacity = sessions[sid].capacity
  /\ d2.sessions[sid].start = sessions[sid].start
  /\ d2.sessions[sid].completed = sessions[sid].completed
  /\ \A s \in DOMAIN sessions \ {sid} : d2.sessions[s] = sessions[s]
  /\ d2.members = members

\* C3: a Reserve whose precondition holds succeeds, and a successful Reserve
\* adds exactly one active reservation for (name, session), takes exactly one
\* spot of that session and changes nothing else: no credit is debited.
C3_ReserveSucceeds ==
  (pc = "view" /\ cookie # NoName) =>
    \A sid \in 1..MaxSessions :
      /\ ReservePre(cookie, sid) => ReserveFlash(Store, cookie, sid, now) = "ok"
      /\ ReserveFlash(Store, cookie, sid, now) = "ok" =>
           ReserveEffect(cookie, sid, reserve(Store, cookie, sid, now))

\* C3 witness: a request of a logged-in member is in its view, and the
\* precondition of Reserve holds for a session.
C3_Witness ==
  /\ pc = "view"
  /\ cookie # NoName
  /\ \E sid \in DOMAIN sessions : ReservePre(cookie, sid)

\* the rejections of Reserve as the claim C4 lists them
ReserveRejected(u, sid) ==
  /\ sid \in DOMAIN sessions
  /\ \/ sessions[sid].completed
     \/ sessions[sid].start < now
     \/ sessions[sid].spots_left = 0
     \/ ~ \E n \in DOMAIN members : Lower(n) = Lower(u)
     \/ \E n \in DOMAIN members : Lower(n) = Lower(u) /\ members[n].credits = 0
     \/ ActiveFor(reservations, u, sid) # {}

\* C4: a rejected Reserve creates no reservation and leaves every spots_left,
\* every credit balance and every reservation status unchanged.
C4_RejectedReserveChangesNothing ==
  (pc = "view" /\ cookie # NoName) =>
    \A sid \in 1..MaxSessions :
      ReserveRejected(cookie, sid) => reserve(Store, cookie, sid, now) = Store

\* C4 witness: a logged-in member with 0 credits asks for an open session that
\* has a spot left.
C4_Witness ==
  /\ pc = "view"
  /\ cookie # NoName
  /\ \E sid \in DOMAIN sessions :
       /\ ~sessions[sid].completed
       /\ ~(sessions[sid].start < now)
       /\ sessions[sid].spots_left > 0
       /\ \E n \in DOMAIN members : Lower(n) = Lower(cookie) /\ members[n].credits = 0

\* C5: a successful Reserve followed by a successful Cancel of the new
\* reservation by the same member, at the same or a later time, returns the
\* session's spots_left to its value before the Reserve and leaves the
\* reservation canceled.
C5_ReserveThenCancelRestoresSpots ==
  (pc = "view" /\ cookie # NoName) =>
    \A sid \in DOMAIN sessions :
      ReserveFlash(Store, cookie, sid, now) = "ok" =>
        LET d1 == reserve(Store, cookie, sid, now)
            rid == CHOOSE r \in DOMAIN d1.reservations : r \notin DOMAIN reservations
        IN \A t2 \in {t \in Times : t >= now} :
             LET d1s == close_past_sessions_and_apply_attendance(d1, t2)
                 d2 == cancel(d1s, cookie, rid, t2)
             IN CancelFlash(d1s, cookie, rid, t2) = "ok" =>
                  /\ d2.sessions[sid].spots_left = sessions[sid].spots_left
                  /\ d2.reservations[rid].status = "canceled"

\* C5 witness: Reserve is about to succeed on a session that starts at least
\* 24 hours from now, so the Cancel that follows succeeds too.
C5_Witness ==
  /\ pc = "view"
  /\ cookie # NoName
  /\ \E sid \in DOMAIN sessions :
       /\ ReservePre(cookie, sid)
       /\ sessions[sid].start - now >= CancelWindow
       /\ sessions[sid].spots_left < sessions[sid].capacity

\* the active reservations the logged-in name u holds
OwnActive(u) ==
  {rid \in DOMAIN reservations :
     reservations[rid].user_name = u /\ reservations[rid].status = "active"}

\* what a successful Cancel of rid leaves
CancelEffect(rid, d2) ==
  /\ d2.reservations = [reservations EXCEPT ![rid].status = "canceled"]
  /\ d2.sessions = [sessions EXCEPT
       ![reservations[rid].session_id].spots_left = @ + 1]
  /\ d2.members = members

\* C6: a member's Cancel of an own active reservation less than 24 hours
\* before the start is rejected and changes nothing; exactly 24 hours or more
\* before the start it succeeds.
C6_CancelWindow ==
  (pc = "view" /\ cookie # NoName) =>
    \A rid \in OwnActive(cookie) :
      IF sessions[reservations[rid].session_id].start - now < 24
      THEN /\ CancelFlash(Store, cookie, rid, now) = "too_late"
           /\ cancel(Store, cookie, rid, now) = Store
      ELSE /\ CancelFlash(Store, cookie, rid, now) = "ok"
           /\ CancelEffect(rid, cancel(Store, cookie, rid, now))

\* C6 witness: the member holds two active reservations, one starting in
\* exactly 24 hours and one in less.
C6_Witness ==
  /\ pc = "view"
  /\ \E r1, r2 \in OwnActive(cookie) :
       /\ sessions[reservations[r1].session_id].start - now = 24
       /\ sessions[reservations[r2].session_id].start - now < 24
       /\ sessions[reservations[r2].session_id].start - now > 0

\* what a successful Move of rid to target leaves, as C7 words it
MoveEffect(rid, target, d2) ==
  LET source == reservations[rid].session_id
  IN /\ d2.reservations[rid].status = "moved"
     /\ \E new \in DOMAIN d2.reservations \ DOMAIN reservations :
          /\ DOMAIN d2.reservations = DOMAIN reservations \cup {new}
          /\ d2.reservations[new] = [user_name |-> reservations[rid].user_name,
                                     session_id |-> target, status |-> "active"]
     /\ \A r \in DOMAIN reservations \ {rid} : d2.reservations[r] = reservations[r]
     /\ d2.sessions[source].spots_left = sessions[source].spots_left + 1
     /\ d2.sessions[target].spots_left = sessions[target].spots_left - 1
     /\ (d2.sessions[source].capacity - d2.sessions[source].spots_left)
          + (d2.sessions[target].capacity - d2.sessions[target].spots_left)
        = (sessions[source].capacity - sessions[source].spots_left)
          + (sessions[target].capacity - sessions[target].spots_left)
     /\ d2.members = members

\* C7: a successful Move sets the original reservation to moved, creates exactly
\* one new active reservation for the same name on the target, adds 1 to the
\* source session's spots_left and takes 1 from the target's, conserving the
\* seats taken over source and target, and leaves the credits alone.
C7_MoveEffect ==
  (pc = "view" /\ cookie # NoName) =>
    \A rid \in DOMAIN reservations, target \in DOMAIN sessions :
      MoveFlash(Store, cookie, rid, target, now) = "ok" =>
        MoveEffect(rid, target, move(Store, cookie, rid, target, now))

\* C7 restricted to a target that is another session than the reservation's own
C7_MoveToOtherSession ==
  (pc = "view" /\ cookie # NoName) =>
    \A rid \in DOMAIN reservations, target \in DOMAIN sessions :
      (MoveFlash(Store, cookie, rid, target, now) = "ok"
         /\ target # reservations[rid].session_id) =>
        MoveEffect(rid, target, move(Store, cookie, rid, target, now))

\* a Move to another session is about to succeed
C7_OtherSessionWitness ==
  /\ pc = "view"
  /\ cookie # NoName
  /\ \E rid \in DOMAIN reservations, target \in DOMAIN sessions :
       /\ MoveFlash(Store, cookie, rid, target, now) = "ok"
       /\ target # reservations[rid].session_id

\* the rejections of Move as the claim C8 lists them
MoveRejected(u, rid, target) ==
  \/ sessions[target].spots_left = 0
  \/ sessions[target].start < now
  \/ reservations[rid].status # "active"
  \/ reservations[rid].user_name # u

\* C8: a Move to a full or past target, or of a reservation that is not active
\* or not the caller's, creates no reservation and leaves the source
\* reservation and both sessions' spots_left unchanged.
C8_RejectedMoveChangesNothing ==
  (pc = "view" /\ cookie # NoName) =>
    \A rid \in DOMAIN reservations, target \in DOMAIN sessions :
      MoveRejected(cookie, rid, target) =>
        move(Store, cookie, rid, target, now) = Store

\* C8 witness: the member asks to move an own active reservation to another
\* session that is not past and has no spot left.
C8_Witness ==
  /\ pc = "view"
  /\ \E rid \in OwnActive(cookie), target \in DOMAIN sessions :
       /\ target # reservations[rid].session_id
       /\ ~(sessions[target].start < now)
       /\ sessions[target].capacity > 0
       /\ sessions[target].spots_left = 0

\* the sessions a sweep at the current time newly completes
NewlyCompleted == {sid \in DOMAIN sessions : ~sessions[sid].completed /\ sessions[sid].start < now}

\* the reservations such a sweep settles
NewlyAttended ==
  {rid \in DOMAIN reservations :
     reservations[rid].session_id \in NewlyCompleted /\ reservations[rid].status = "active"}

\* what a sweep at the current time leaves, as C9 words it
SweepEffect(d2) ==
  /\ DOMAIN d2.sessions = DOMAIN sessions
  /\ DOMAIN d2.reservations = DOMAIN reservations
  /\ DOMAIN d2.members = DOMAIN members
  /\ \A sid \in DOMAIN sessions :
       IF sessions[sid].start < now
       THEN d2.sessions[sid] = [sessions[sid] EXCEPT !.completed = TRUE]
       ELSE d2.sessions[sid] = sessions[sid]
  /\ \A rid \in DOMAIN reservations :
       IF rid \in NewlyAttended
       THEN d2.reservations[rid] = [reservations[rid] EXCEPT !.status = "attended"]
       ELSE d2.reservations[rid] = reservations[rid]
  /\ \A n \in DOMAIN members :
       LET owed == Cardinality({rid \in NewlyAttended :
                                  Lower(reservations[rid].user_name) = Lower(n)})
       IN d2.members[n].credits =
            IF members[n].credits >= owed THEN members[n].credits - owed ELSE 0

\* C9: a sweep at time now completes every session that started before now,
\* turns the active reservations of the newly completed sessions to attended,
\* takes one credit per such reservation from the member its name matches
\* case-insensitively while the balance is above 0, and changes nothing else.
C9_SweepEffect ==
  pc = "idle" => SweepEffect(close_past_sessions_and_apply_attendance(Store, now))

\* C9 witness: the sweep is about to settle two active reservations of one
\* member who has a single credit, while another session is not yet past.
C9_Witness ==
  /\ pc = "idle"
  /\ \E n \in DOMAIN members :
       /\ members[n].credits = 1
       /\ Cardinality({rid \in NewlyAttended :
                         Lower(reservations[rid].user_name) = Lower(n)}) = 2
  /\ \E rid \in DOMAIN reservations : reservations[rid].status = "active"

\* C10: the sweep is idempotent: run again at the same time on the store it
\* left, it changes nothing.
C10_SweepIdempotent ==
  LET d1 == close_past_sessions_and_apply_attendance(Store, now)
  IN close_past_sessions_and_apply_attendance(d1, now) = d1

\* C10 witness: the first run changes the store: it completes a session,
\* settles an active reservation and debits a member who keeps a credit that a
\* second debit could take.
C10_Witness ==
  /\ pc = "idle"
  /\ \E rid \in NewlyAttended :
       \E n \in DOMAIN members :
         /\ Lower(n) = Lower(reservations[rid].user_name)
         /\ members[n].credits >= 2

\* what AdminCancelRefund of the non-canceled reservation rid leaves, as C11
\* words it, branch by branch on the status the reservation had
AdminCancelEffect(rid, d2) ==
  LET r == reservations[rid]
      refunded == IF MatchingMembers(members, r.user_name) = {} THEN members
                  ELSE [members EXCEPT ![FirstMember(members, r.user_name)].credits = @ + 1]
  IN /\ d2.reservations = [reservations EXCEPT ![rid].status = "canceled"]
     /\ r.status = "attended" =>
          d2.members = refunded /\ d2.sessions = sessions
     /\ (r.status = "active" /\ ~sessions[r.session_id].completed) =>
          /\ d2.sessions = [sessions EXCEPT ![r.session_id].spots_left = @ + 1]
          /\ d2.members = members
     /\ r.status = "moved" =>
          d2.members = members /\ d2.sessions = sessions

\* C11: AdminCancelRefund of a reservation that is not canceled leaves it
\* canceled; an attended one gives the matched member one credit and leaves
\* spots_left alone, an active one of a session not completed gives the session
\* one spot and leaves the credits alone, a moved one changes neither.
C11_AdminCancelRefundBranches ==
  pc = "view" =>
    \A rid \in DOMAIN reservations :
      reservations[rid].status # "canceled" =>
        AdminCancelEffect(rid, admin_cancel_reservation_refund(Store, rid))

\* C11 witness: the admin can cancel an attended reservation whose name matches
\* a member, and another reservation that is active or moved.
C11_Witness ==
  /\ pc = "view"
  /\ \E rid \in DOMAIN reservations :
       /\ reservations[rid].status = "attended"
       /\ MatchingMembers(members, reservations[rid].user_name) # {}
  /\ \E rid \in DOMAIN reservations : reservations[rid].status \in {"active", "moved"}

\* C12: AdminCancelRefund of a reservation that is already canceled changes
\* nothing, and AdminCancelRefund applied twice to any reservation leaves what
\* one application leaves.
C12_AdminCancelRefundIdempotent ==
  pc = "view" =>
    \A rid \in DOMAIN reservations :
      LET d1 == admin_cancel_reservation_refund(Store, rid)
      IN /\ reservations[rid].status = "canceled" => d1 = Store
         /\ admin_cancel_reservation_refund(d1, rid) = d1

\* C12 witness: the admin faces a canceled reservation, and an attended one
\* whose first cancellation refunds a credit.
C12_Witness ==
  /\ pc = "view"
  /\ \E rid \in DOMAIN reservations : reservations[rid].status = "canceled"
  /\ \E rid \in DOMAIN reservations :
       /\ reservations[rid].status = "attended"
       /\ admin_cancel_reservation_refund(Store, rid).members # members

\* what DeleteSession of the session sid, not past, leaves as C13 words it
DeleteEffect(sid, d2) ==
  /\ DOMAIN d2.sessions = DOMAIN sessions \ {sid}
  /\ \A other \in DOMAIN d2.sessions : d2.sessions[other] = sessions[other]
  /\ DOMAIN d2.reservations =
       {rid \in DOMAIN reservations : reservations[rid].session_id # sid}
  /\ \A rid \in DOMAIN d2.reservations :
       /\ d2.reservations[rid] = reservations[rid]
       /\ d2.reservations[rid].session_id \in DOMAIN d2.sessions

\* C13: DeleteSession of a session whose start is in the past is rejected and
\* changes nothing; DeleteSession of a session not in the past removes the
\* session and every reservation of it and leaves the other sessions and their
\* reservations as they were; no reservation references a session that does
\* not exist.
C13_DeleteSession ==
  /\ \A rid \in DOMAIN reservations : reservations[rid].session_id \in DOMAIN sessions
  /\ pc = "view" =>
       \A sid \in DOMAIN sessions :
         IF sessions[sid].start < now
         THEN admin_delete_session(Store, sid, now) = Store
         ELSE DeleteEffect(sid, admin_delete_session(Store, sid, now))

\* C13 witness: the admin can delete a session that is not past and has a
\* reservation, and ask in vain for the deletion of a past session that has
\* one.
C13_Witness ==
  /\ pc = "view"
  /\ \E sid \in DOMAIN sessions, other \in DOMAIN sessions :
       /\ sid # other
       /\ ~(sessions[sid].start < now)
       /\ sessions[other].start < now
       /\ ReservationsOf(reservations, sid) # {}
       /\ ReservationsOf(reservations, other) # {}

\* the changes of status C14 allows
AllowedChanges ==
  { <<"active", "attended">>, <<"active", "canceled">>, <<"active", "moved">>,
    <<"attended", "canceled">>, <<"moved", "canceled">> }

\* C14: in every step a reservation that stays in the table keeps its status
\* or changes it along active -> attended, active -> canceled, active -> moved,
\* attended -> canceled or moved -> canceled: a canceled reservation never
\* changes again, an attended or moved one never returns to active; and no
\* reservation ever has the status no_show.
C14_StatusTransitions ==
  /\ [][\A rid \in DOMAIN reservations \cap DOMAIN reservations' :
          reservations'[rid].status # reservations[rid].status =>
            <<reservations[rid].status, reservations'[rid].status>> \in AllowedChanges]_vars
  /\ [](\A rid \in DOMAIN reservations : reservations[rid].status # "no_show")

\* C14 witness: a reservation was moved, and another one is canceled in a
\* session that is completed.
C14_Witness ==
  /\ \E rid \in DOMAIN reservations : reservations[rid].status = "moved"
  /\ \E rid \in DOMAIN reservations :
       /\ reservations[rid].status = "canceled"
       /\ sessions[reservations[rid].session_id].completed

ActiveOf(sid) ==
  {rid \in DOMAIN reservations :
     reservations[rid].session_id = sid /\ reservations[rid].status = "active"}

\* C16: for every session that is not completed, capacity - spots_left is the
\* number of active reservations of the session.
C16_SpotsMatchActive ==
  \A sid \in DOMAIN sessions :
    ~sessions[sid].completed =>
      sessions[sid].capacity - sessions[sid].spots_left = Cardinality(ActiveOf(sid))

\* C16 witness: a session that is not completed has an active reservation and
\* one that is no longer active, and a spot left.
C16_Witness ==
  \E sid \in DOMAIN sessions :
    /\ ~sessions[sid].completed
    /\ sessions[sid].spots_left > 0
    /\ ActiveOf(sid) # {}
    /\ ReservationsOf(reservations, sid) # ActiveOf(sid)

\* a registration with a single credit
RegisterOne(raw) == Register(raw, 1)

\* the requests without admin_members_adjust_credits and without
\* admin_members_delete: every member is registered once, with one credit
NextNoAdjust ==
  \/ BeforeRequest
  \/ Tick
  \/ Render
  \/ \E raw \in RawNames : Login(raw)
  \/ Logout
  \/ \E sid \in 1..MaxSessions : Reserve(sid)
  \/ \E rid \in 1..MaxReservations : Cancel(rid)
  \/ \E rid \in 1..MaxReservations, target \in 1..MaxSessions : Move(rid, target)
  \/ \E rid \in 1..MaxReservations : AdminCancelRefund(rid)
  \/ \E start \in StartTimes, cap \in Capacities : CreateSession(start, cap)
  \/ \E sid \in 1..MaxSessions : DeleteSession(sid)
  \/ \E raw \in RawNames : RegisterOne(raw)

SpecNoAdjust == Init /\ [][NextNoAdjust]_vars

\* C17: the refunds of AdminCancelRefund and DeleteSession give a member no
\* credit the sweep did not take from that member: without adjustCredits a
\* balance never rises above the value the member was registered with, which
\* under SpecNoAdjust is one credit.
C17_NoCreditAboveRegistered ==
  \A n \in DOMAIN members : members[n].credits <= 1

\* in the store d no name holds two active reservations of one session
OneActivePerSession(d) ==
  \A r1 \in DOMAIN d.reservations, r2 \in DOMAIN d.reservations :
    ( /\ d.reservations[r1].user_name = d.reservations[r2].user_name
      /\ d.reservations[r1].session_id = d.reservations[r2].session_id
      /\ d.reservations[r1].status = "active"
      /\ d.reservations[r2].status = "active" ) => r1 = r2

\* C18: a member holds at most one active reservation for any given session:
\* in every reachable state, and in the state every Reserve and every Move of
\* the logged-in member leads to from it.
C18_OneActivePerSession ==
  /\ OneActivePerSession(Store)
  /\ (pc = "view" /\ cookie # NoName) =>
       /\ \A sid \in DOMAIN sessions :
            OneActivePerSession(reserve(Store, cookie, sid, now))
       /\ \A rid \in DOMAIN reservations, target \in DOMAIN sessions :
            OneActivePerSession(move(Store, cookie, rid, target, now))

\* C20: every attended reservation belongs to a completed session, every
\* completed session started in the past, and no active reservation belongs to
\* a completed session; hence a session that DeleteSession accepts has no
\* attended reservation and its deletion changes no member's credits.
C20_AttendedOnlyInCompleted ==
  /\ \A rid \in DOMAIN reservations :
       /\ reservations[rid].status = "attended" =>
            sessions[reservations[rid].session_id].completed
       /\ reservations[rid].status = "active" =>
            ~sessions[reservations[rid].session_id].completed
  /\ \A sid \in DOMAIN sessions : sessions[sid].completed => sessions[sid].start < now
  /\ pc = "view" =>
       \A sid \in DOMAIN sessions :
         ~(sessions[sid].start < now) =>
           /\ \A rid \in ReservationsOf(reservations, sid) :
                reservations[rid].status # "attended"
           /\ admin_delete_session(Store, sid, now).members = members

\* C20 witness: a completed session has an attended reservation whose name
\* matches a member, and the admin can delete another session, not past, that
\* has a reservation.
C20_Witness ==
  /\ pc = "view"
  /\ \E rid \in DOMAIN reservations :
       /\ reservations[rid].status = "attended"
       /\ MatchingMembers(members, reservations[rid].user_name) # {}
  /\ \E sid \in DOMAIN sessions :
       /\ ~(sessions[sid].start < now)
       /\ ReservationsOf(reservations, sid) # {}

---------------------------------------------------------------------------
(* Two server threads in reserve *)

RaceThreads == {1, 2}

\* the names registered and logged in for the race
RaceNames == { <<"a">>, <<"b">> }

\* thread th, for a browser logged in as the member u, runs the hook and the
\* checks of reserve on what it reads; a request the checks refuse ends here
\* and has written nothing
ReserveCheck(th, u, sid) ==
  /\ th \notin DOMAIN inflight
  /\ u \in DOMAIN members
  /\ Cardinality(DOMAIN reservations) + Cardinality(DOMAIN inflight) < MaxReservations
  /\ LET d == close_past_sessions_and_apply_attendance(Store, now)
     IN /\ SetStore(d)
        /\ inflight' =
             IF ReserveFlash(d, u, sid, now) = "ok"
             THEN [x \in DOMAIN inflight \cup {th} |->
                     IF x = th
                     THEN [user_name |-> u, session_id |-> sid,
                           spots_left |-> d.sessions[sid].spots_left]
                     ELSE inflight[x]]
             ELSE inflight
  /\ UNCHANGED <<cookie, now, pc>>

\* thread th adds its reservation, writes the seat count and commits
ReserveCommit(th) ==
  /\ th \in DOMAIN inflight
  /\ SetStore(reserve_commit(Store, inflight[th]))
  /\ inflight' = [x \in DOMAIN inflight \ {th} |-> inflight[x]]
  /\ UNCHANGED <<cookie, now, pc>>

\* the admin's requests run as in Spec; the sessions are not deleted and the
\* clock stands still while the threads run
RaceNext ==
  \/ BeforeRequest
  \/ Render
  \/ \E start \in StartTimes, cap \in Capacities : CreateSession(start, cap)
  \/ \E raw \in RaceNames : RegisterOne(raw)
  \/ \E th \in RaceThreads, u \in RaceNames, sid \in 1..MaxSessions : ReserveCheck(th, u, sid)
  \/ \E th \in RaceThreads : ReserveCommit(th)

RaceSpec == Init /\ [][RaceNext]_vars

\* the active reservations of session sid in the store d
ActiveIn(d, sid) ==
  {rid \in DOMAIN d.reservations :
     d.reservations[rid].session_id = sid /\ d.reservations[rid].status = "active"}

\* two threads have checked the same session for different members, each has
\* read spots_left = 1 and neither has committed
BothChecked(t1, t2) ==
  /\ t1 \in DOMAIN inflight /\ t2 \in DOMAIN inflight /\ t1 # t2
  /\ inflight[t1].session_id = inflight[t2].session_id
  /\ inflight[t1].user_name # inflight[t2].user_name
  /\ inflight[t1].spots_left = 1 /\ inflight[t2].spots_left = 1
  /\ sessions[inflight[t1].session_id].spots_left = 1

\* C19: when two Reserve requests of different members for a session with one
\* spot left have both passed the capacity check before either commits, both
\* commits succeed: each adds its active reservation, and the active
\* reservations of the session outnumber its capacity.
C19_RaceOverbooks ==
  \A t1 \in RaceThreads, t2 \in RaceThreads :
    BothChecked(t1, t2) =>
      LET sid == inflight[t1].session_id
          d1 == reserve_commit(Store, inflight[t1])
          d2 == reserve_commit(d1, inflight[t2])
      IN /\ Cardinality(ActiveIn(d1, sid)) = Cardinality(ActiveIn(Store, sid)) + 1
         /\ Cardinality(ActiveIn(d2, sid)) = Cardinality(ActiveIn(Store, sid)) + 2
         /\ \E r1 \in ActiveIn(d2, sid), r2 \in ActiveIn(d2, sid) :
              /\ d2.reservations[r1].user_name = inflight[t1].user_name
              /\ d2.reservations[r2].user_name = inflight[t2].user_name
         /\ Cardinality(ActiveIn(d2, sid)) > d2.sessions[sid].capacity

\* C19 witness: both threads have committed and a session holds more active
\* reservations, of different members, than it has places.
C19_Witness ==
  /\ inflight = << >>
  /\ \E sid \in DOMAIN sessions :
       /\ Cardinality(ActiveIn(Store, sid)) > sessions[sid].capacity
       /\ \E r1 \in ActiveIn(Store, sid), r2 \in ActiveIn(Store, sid) :
            reservations[r1].user_name # reservations[r2].user_name

====
